---- MODULE Spec2Model ----
(***************************************************************************)
(* A model of node-librenms-weathermap: the renderer of src/index.ts       *)
(* (getStrokeColor, formatTraffic, renderConnection, render), the data     *)
(* collection of fetchRenderData and the command line pipeline of          *)
(* src/cli.ts.                                                             *)
(*                                                                         *)
(* JavaScript numbers are modelled exactly where the program's arithmetic  *)
(* is exact:                                                               *)
(*   - a traffic value (bits per second) is a record [hi, lo] that stands  *)
(*     for hi * 10^9 + lo, because the values of interest exceed the       *)
(*     32-bit integers of the model checker;                               *)
(*   - a coordinate computed by the layout is a rational [n, d]; [0, 0] is *)
(*     NaN and [+-1, 0] is +-Infinity.  The layout is evaluated on         *)
(*     connections whose length is an integer, so that Math.sqrt and the   *)
(*     divisions by the length are exact.                                  *)
(*   - a string that the program inspects (a colour) is a sequence of      *)
(*     one-character strings; undefined is the empty tuple and a defined   *)
(*     value v of an optional is <<v>>.                                    *)
(***************************************************************************)
EXTENDS Integers, Sequences, FiniteSets, TLC

VARIABLES
  pc,                 \* position of the running specification
  args,               \* arguments of the function under evaluation
  result,             \* <<value>> once the function has returned
  env,                \* process.env: which of the two variables are set
  config,             \* <<Config>> once loadConfig has resolved
  devIdx,             \* fetchRenderData: index of the device of the outer loop
  connIdx,            \* fetchRenderData: index of the connection of the inner loop
  deviceId,           \* fetchRenderData: device_id of the current device
  ports,              \* fetchRenderData: ports of the current device
  portId,             \* fetchRenderData: port_id of the current connection
  deviceDataList,     \* fetchRenderData: deviceDataList
  connectionDataList, \* fetchRenderData: connectionDataList
  renderData,         \* <<RenderData>> handed to render
  svg,                \* <<document>> once render has returned
  stdout,             \* what process.stdout.write has received
  exitCode,           \* <<code>> once process.exit has been called
  faults,             \* history: the failures the collaborators have answered with
  polled,             \* history: what the API answered for each connection
  renderCalls         \* history: number of calls of render

vars == <<pc, args, result, env, config, devIdx, connIdx, deviceId, ports, portId,
          deviceDataList, connectionDataList, renderData, svg, stdout, exitCode,
          faults, polled, renderCalls>>

pipelineVars == <<env, config, devIdx, connIdx, deviceId, ports, portId,
                  deviceDataList, connectionDataList, renderData, svg, stdout,
                  exitCode, faults, polled, renderCalls>>

-----------------------------------------------------------------------------
(* JavaScript values *)

Undefined == <<>>

Some(v) == <<v>>

Abs(x) == IF x < 0 THEN -x ELSE x

Sign(x) == IF x < 0 THEN -1 ELSE IF x > 0 THEN 1 ELSE 0

RECURSIVE Gcd(_, _)
Gcd(a, b) == IF b = 0 THEN a ELSE Gcd(b, a % b)

NaN == [n |-> 0, d |-> 0]

Infinity(s) == [n |-> s, d |-> 0]

IsNaN(q) == q.n = 0 /\ q.d = 0

IsFinite(q) == q.d # 0

\* the number n / d, d # 0, in lowest terms with a positive denominator
Rat(n, d) ==
  LET g == Gcd(Abs(n), Abs(d))
  IN  [n |-> Sign(d) * (n \div g), d |-> Abs(d) \div g]

Num(i) == [n |-> i, d |-> 1]

RNeg(a) == [n |-> -a.n, d |-> a.d]

\* a + b
RAdd(a, b) ==
  IF IsNaN(a) \/ IsNaN(b) THEN NaN
  ELSE IF ~IsFinite(a) /\ ~IsFinite(b) THEN (IF a.n = b.n THEN a ELSE NaN)
  ELSE IF ~IsFinite(a) THEN a
  ELSE IF ~IsFinite(b) THEN b
  ELSE Rat(a.n * b.d + b.n * a.d, a.d * b.d)

\* a - b
RSub(a, b) == RAdd(a, RNeg(b))

\* a * b
RMul(a, b) ==
  IF IsNaN(a) \/ IsNaN(b) THEN NaN
  ELSE IF ~IsFinite(a) \/ ~IsFinite(b)
       THEN (IF a.n = 0 \/ b.n = 0 THEN NaN ELSE Infinity(Sign(a.n) * Sign(b.n)))
  ELSE Rat(a.n * b.n, a.d * b.d)

\* a / b
RDiv(a, b) ==
  IF IsNaN(a) \/ IsNaN(b) THEN NaN
  ELSE IF ~IsFinite(a) THEN (IF ~IsFinite(b) THEN NaN
                             ELSE Infinity(a.n * (IF b.n < 0 THEN -1 ELSE 1)))
  ELSE IF ~IsFinite(b) THEN Num(0)
  ELSE IF b.n = 0 THEN (IF a.n = 0 THEN NaN ELSE Infinity(Sign(a.n)))
  ELSE Rat(a.n * b.d, a.d * b.n)

\* Math.abs
RAbs(a) == [n |-> Abs(a.n), d |-> a.d]

Max(a, b) == IF a >= b THEN a ELSE b

\* Math.sqrt(dx ** 2 + dy ** 2), where that is an integer: it lies between
\* the longer span and the sum of the spans
Length(dx, dy) ==
  CHOOSE k \in Max(Abs(dx), Abs(dy)) .. (Abs(dx) + Abs(dy)) : k * k = dx * dx + dy * dy

\* a traffic value: hi * 10^9 + lo; a negative value has hi = 0 and lo < 0
Bps(hi, lo) == [hi |-> hi, lo |-> lo]

\* traffic < k, for an integer constant k below 10^9
BpsLess(t, k) == t.hi = 0 /\ t.lo < k

\* s <= traffic, for an integer threshold s below 10^9
LeqBps(s, t) == t.hi > 0 \/ s <= t.lo

\* rate * 8, the octet rate of a port as bits per second
Times8(rate) == Bps(rate \div 125000000, (rate % 125000000) * 8)

-----------------------------------------------------------------------------
(* colours *)

Black == <<"#", "0", "0", "0", "0", "0", "0">>

Hex(c) == <<"#", c, c, c, c, c, c>>

DEFAULT_COLORS ==
  (-1 :> <<"#", "c", "c", "c", "c", "c", "c">>) @@
  (0 :> <<"#", "0", "0", "0", "0", "0", "0">>) @@
  (1000000 :> <<"#", "0", "0", "0", "0", "f", "f">>) @@
  (10000000 :> <<"#", "0", "0", "c", "c", "c", "c">>) @@
  (25000000 :> <<"#", "0", "0", "f", "f", "0", "0">>) @@
  (50000000 :> <<"#", "c", "c", "c", "c", "0", "0">>) @@
  (75000000 :> <<"#", "e", "e", "7", "0", "0", "0">>) @@
  (100000000 :> <<"#", "f", "f", "0", "0", "0", "0">>)

\* the thresholds of a band map, sorted by (a, b) => b - a
RECURSIVE SortDescending(_)
SortDescending(S) ==
  IF S = {} THEN <<>>
  ELSE LET m == CHOOSE x \in S : \A y \in S : y <= x
       IN  <<m>> \o SortDescending(S \ {m})

\* a mis-sorted list: (a, b) => a - b
RECURSIVE SortAscending(_)
SortAscending(S) ==
  IF S = {} THEN <<>>
  ELSE LET m == CHOOSE x \in S : \A y \in S : x <= y
       IN  <<m>> \o SortAscending(S \ {m})

\* Array.prototype.find((s) => s <= traffic)
FindLeq(sortedSpeeds, traffic) ==
  LET hits == {i \in 1..Len(sortedSpeeds) : LeqBps(sortedSpeeds[i], traffic)}
  IN  IF hits = {} THEN Undefined
      ELSE Some(sortedSpeeds[CHOOSE i \in hits : \A j \in hits : i <= j])

\* array[index], zero-based, undefined outside the array
ArrayAt(array, index) ==
  IF index + 1 \in 1..Len(array) THEN Some(array[index + 1]) ELSE Undefined

\* colors[key], undefined for a missing key and for the key undefined
Lookup(colors, key) ==
  IF key # Undefined /\ key[1] \in DOMAIN colors THEN Some(colors[key[1]]) ELSE Undefined

\* getStrokeColor without the fallback to the smallest threshold and to black
getStrokeColorNoFallback(traffic, colors) ==
  LET sortedSpeeds == SortDescending(DOMAIN colors)
      speed == FindLeq(sortedSpeeds, traffic)
      color == Lookup(colors, speed)
  IN  IF color # Undefined THEN color[1] ELSE <<"u", "n", "d", "e", "f", "i", "n", "e", "d">>

\* getStrokeColor over a list sorted the wrong way round
getStrokeColorAscending(traffic, colors) ==
  LET sortedSpeeds == SortAscending(DOMAIN colors)
      speed == FindLeq(sortedSpeeds, traffic)
      key == IF speed # Undefined /\ speed[1] # 0
             THEN speed
             ELSE ArrayAt(sortedSpeeds, Len(sortedSpeeds) - 1)
      color == Lookup(colors, key)
  IN  IF color # Undefined /\ color[1] # <<>> THEN color[1] ELSE Black

\* getStrokeColor: speed || last treats the threshold 0 like undefined
getStrokeColor(traffic, colors) ==
  LET sortedSpeeds == SortDescending(DOMAIN colors)
      speed == FindLeq(sortedSpeeds, traffic)
      key == IF speed # Undefined /\ speed[1] # 0
             THEN speed
             ELSE ArrayAt(sortedSpeeds, Len(sortedSpeeds) - 1)
      color == Lookup(colors, key)
  IN  IF color # Undefined /\ color[1] # <<>> THEN color[1] ELSE Black

-----------------------------------------------------------------------------
(* formatTraffic *)

\* the largest k with 2^k <= whole, for whole >= 1
RECURSIVE Log2Floor(_)
Log2Floor(whole) == IF whole < 2 THEN 0 ELSE 1 + Log2Floor(whole \div 2)

\* the number of doublings that bring part, 0 < part < D, to D or above
RECURSIVE Doublings(_, _)
Doublings(part, D) == IF part >= D THEN 0 ELSE 1 + Doublings(2 * part, D)

\* for D = 10^k: k, and 5^k
RECURSIVE Digits(_)
Digits(D) == IF D = 1 THEN 0 ELSE 1 + Digits(D \div 10)

RECURSIVE PowerOf5(_)
PowerOf5(D) == IF D = 1 THEN 1 ELSE 5 * PowerOf5(D \div 10)

\* (r * 2^shifts) mod F, for 0 <= r < F <= 5^9
RECURSIVE ShiftMod(_, _, _)
ShiftMod(r, shifts, F) ==
  IF shifts = 0 THEN r % F
  ELSE IF shifts >= 10 THEN (1024 * ShiftMod(r, shifts - 10, F)) % F
  ELSE (2 * ShiftMod(r, shifts - 1, F)) % F

\* The double traffic / D, D = 10^k, against the exact quotient: -1 below,
\* 0 equal, 1 above.  The double is the quotient rounded to 53 significant
\* bits: with shift = 52 - floor(log2(quotient)) it is the integer nearest to
\* quotient * 2^shift = traffic * 2^(shift - k) / 5^k, and the sign of the
\* error is read off the remainder of that division by the odd number 5^k.
QuotientError(traffic, D) ==
  LET whole == traffic.hi * (1000000000 \div D) + traffic.lo \div D
      shift == IF whole >= 1 THEN 52 - Log2Floor(whole)
               ELSE 52 + Doublings(traffic.lo, D)
      F == PowerOf5(D)
      dropped == ShiftMod(traffic.lo % F, shift - Digits(D), F)
  IN  IF dropped = 0 THEN 0 ELSE IF 2 * dropped < F THEN -1 ELSE 1

\* the digits of hundredths / 100 with two decimals
TwoDecimals(hundredths) ==
  ToString(hundredths \div 100) \o "." \o
  (IF hundredths % 100 < 10 THEN "0" ELSE "") \o ToString(hundredths % 100)

\* toFixed2 that cuts the digits after the second decimal
toFixed2Truncating(traffic, D) ==
  LET unit == D \div 100
  IN  TwoDecimals(traffic.hi * (1000000000 \div unit) + traffic.lo \div unit)

\* (traffic / D).toFixed(2) for traffic >= 0: the n for which n / 100 is
\* nearest to the double traffic / D, the larger n of two equally near
toFixed2(traffic, D) ==
  LET unit == D \div 100
      floorN == traffic.hi * (1000000000 \div unit) + traffic.lo \div unit
      rest == traffic.lo % unit
      up == IF 2 * rest # unit THEN 2 * rest > unit
            ELSE QuotientError(traffic, D) >= 0
  IN  TwoDecimals(IF up THEN floorN + 1 ELSE floorN)

formatTraffic(traffic) ==
  IF BpsLess(traffic, 0) THEN "Inactive"
  ELSE IF BpsLess(traffic, 100000) THEN toFixed2(traffic, 1000) \o " kbps"
  ELSE IF BpsLess(traffic, 100000000) THEN toFixed2(traffic, 1000000) \o " Mbps"
  ELSE toFixed2(traffic, 1000000000) \o " Gbps"

-----------------------------------------------------------------------------
(* renderConnection *)

\* String.prototype.replace(ch, ''): the string without its first ch
RECURSIVE ReplaceFirst(_, _)
ReplaceFirst(str, ch) ==
  IF str = <<>> THEN <<>>
  ELSE IF Head(str) = ch THEN Tail(str)
  ELSE <<Head(str)>> \o ReplaceFirst(Tail(str), ch)

getArrowMarkerId(color) == <<"a", "r", "r", "o", "w", "-">> \o ReplaceFirst(color, "#")

createArrowMarker(color) ==
  [kind |-> "marker", id |-> getArrowMarkerId(color), fill |-> color]

renderTraffic(x, y, traffic) ==
  LET fontSize == 12
      width == fontSize * 6
  IN  [kind |-> "label",
       rect |-> [x |-> RSub(x, RDiv(Num(width), Num(2))),
                 y |-> RSub(y, RMul(Num(fontSize), Rat(3, 4))),
                 width |-> Num(width),
                 height |-> RMul(Num(fontSize), Rat(3, 2))],
       text |-> [x |-> x,
                 y |-> RAdd(y, RDiv(Num(fontSize), Num(2))),
                 fontSize |-> fontSize,
                 content |-> formatTraffic(traffic)]]

getStrokeWidth(speed) ==
  IF speed = "10M" THEN Rat(1, 2)
  ELSE IF speed = "100M" THEN Num(1)
  ELSE IF speed = "1G" THEN Num(2)
  ELSE IF speed = "10G" THEN Num(4)
  ELSE IF speed = "40G" THEN Num(6)
  ELSE IF speed = "100G" THEN Num(8)
  ELSE Num(0)

\* the test of the overlap rule with the bounds included
overlapRuleInclusive(spanX, spanY) == spanY >= 48 /\ spanX <= 192

\* if (spanY > 48 && spanX < 192)
overlapRule(spanX, spanY) == spanY > 48 /\ spanX < 192

renderConnection(connection, colors) ==
  LET dx == connection.to_x - connection.from_x
      dy == connection.to_y - connection.from_y
      middleX == RAdd(Num(connection.from_x), RDiv(Num(dx), Num(2)))
      middleY == RAdd(Num(connection.from_y), RDiv(Num(dy), Num(2)))
      spanX == Abs(dx)
      spanY == Abs(dy)
      length == Num(Length(dx, dy))
      normalizedVectorX == RDiv(Num(dx), length)
      normalizedVectorY == RDiv(Num(dy), length)
      trafficTextWidth == 72
      strokeWidth == getStrokeWidth(connection.speed)
      offset == IF overlapRule(spanX, spanY)
                THEN RDiv(RAdd(Num(12), RMul(strokeWidth, Num(6))), RAbs(normalizedVectorY))
                ELSE RAdd(RAdd(RDiv(Num(trafficTextWidth), Num(2)), Num(8)),
                          RMul(strokeWidth, Num(6)))
      outboundTrafficLabelX == RSub(middleX, RMul(normalizedVectorX, offset))
      outboundTrafficLabelY == RSub(middleY, RMul(normalizedVectorY, offset))
      inboundTrafficLabelX == RAdd(middleX, RMul(normalizedVectorX, offset))
      inboundTrafficLabelY == RAdd(middleY, RMul(normalizedVectorY, offset))
      outboundColor == getStrokeColor(connection.outboundTraffic, colors)
      inboundColor == getStrokeColor(connection.inboundTraffic, colors)
      outboundArrow == [kind |-> "arrow",
                        from |-> <<Num(connection.from_x), Num(connection.from_y)>>,
                        to |-> <<middleX, middleY>>,
                        stroke |-> outboundColor,
                        strokeWidth |-> strokeWidth,
                        markerEnd |-> getArrowMarkerId(outboundColor)]
      inboundArrow == [kind |-> "arrow",
                       from |-> <<Num(connection.to_x), Num(connection.to_y)>>,
                       to |-> <<middleX, middleY>>,
                       stroke |-> inboundColor,
                       strokeWidth |-> strokeWidth,
                       markerEnd |-> getArrowMarkerId(inboundColor)]
  IN  [arrowElements |-> <<outboundArrow, inboundArrow>>,
       labelElements |->
         <<renderTraffic(outboundTrafficLabelX, outboundTrafficLabelY,
                         connection.outboundTraffic),
           renderTraffic(inboundTrafficLabelX, inboundTrafficLabelY,
                         connection.inboundTraffic)>>,
       defsElements |-> <<createArrowMarker(outboundColor), createArrowMarker(inboundColor)>>]

-----------------------------------------------------------------------------
(* render *)

renderBackground(width, height) ==
  [kind |-> "background", x |-> 0, y |-> 0, width |-> width, height |-> height]

\* xmlescape returns a text without markup characters as it is; the texts
\* of the model have none
renderDiagramTitle(title) ==
  LET fontSize == 24
  IN  [kind |-> "title", y |-> fontSize * 2, fontSize |-> fontSize, content |-> title]

renderDevice(device) ==
  LET deviceSvg == IF device.type \in {"switch", "router", "cloud"}
                   THEN Some([href |-> device.type, x |-> device.render_x,
                              y |-> device.render_y])
                   ELSE Undefined
      deviceHeight == IF device.type = "cloud" THEN 80 ELSE 50
      labelY == IF device.label_position = "top"
                THEN device.render_y - (deviceHeight \div 2 + 4)
                ELSE device.render_y + (deviceHeight \div 2 + 20)
  IN  [kind |-> "device", deviceSvg |-> deviceSvg,
       label |-> [x |-> device.render_x, y |-> labelY, content |-> device.name]]

renderSite(site) ==
  LET labelY == IF site.label_position = "top"
                THEN site.render_y + 24
                ELSE site.render_y + site.height - 8
  IN  [kind |-> "site",
       rect |-> [x |-> site.render_x, y |-> site.render_y, width |-> site.width,
                 height |-> site.height],
       label |-> [x |-> RAdd(Num(site.render_x), RDiv(Num(site.width), Num(2))),
                  y |-> labelY, content |-> site.name]]

\* now: the text of new Date() at the call
renderDate(data, now) ==
  [kind |-> "date", x |-> data.width - 8, y |-> data.height - 8, content |-> now]

\* the icons and the shared arrow head that every document defines
FixedDefs == <<"router", "switch", "cloud", "arrow-marker", "arrow">>

renderToSvg(title, width, height, elements, defsElements) ==
  [viewBox |-> <<0, 0, width, height>>,
   fixedDefs |-> FixedDefs,
   defs |-> defsElements,
   title |-> title,
   content |-> elements]

\* [... new Set(elements)]: the first occurrence of each element, in order
RECURSIVE Unique(_)
Unique(elements) ==
  IF elements = <<>> THEN <<>>
  ELSE LET front == Unique(SubSeq(elements, 1, Len(elements) - 1))
           last == elements[Len(elements)]
       IN  IF \E i \in 1..Len(front) : front[i] = last THEN front
           ELSE Append(front, last)

\* the lists in order, one after the other
RECURSIVE Flatten(_)
Flatten(lists) ==
  IF lists = <<>> THEN <<>> ELSE Head(lists) \o Flatten(Tail(lists))

\* render that pushes the fragments of each connection as it comes
renderInterleaved(data, now) ==
  LET rendered == [i \in 1..Len(data.connections) |->
                     renderConnection(data.connections[i], data.colors)]
      elements ==
        <<renderBackground(data.width, data.height), renderDiagramTitle(data.title)>>
        \o [i \in 1..Len(data.sites) |-> renderSite(data.sites[i])]
        \o Flatten([i \in 1..Len(rendered) |->
                      rendered[i].arrowElements \o rendered[i].labelElements])
        \o [i \in 1..Len(data.devices) |-> renderDevice(data.devices[i])]
        \o <<renderDate(data, now)>>
      defsElements == Flatten([i \in 1..Len(rendered) |-> rendered[i].defsElements])
  IN  renderToSvg(data.title, data.width, data.height, elements, Unique(defsElements))

\* render that hands every marker of every connection to the document
renderAllMarkers(data, now) ==
  LET rendered == [i \in 1..Len(data.connections) |->
                     renderConnection(data.connections[i], data.colors)]
      arrowElements == Flatten([i \in 1..Len(rendered) |-> rendered[i].arrowElements])
      labelElements == Flatten([i \in 1..Len(rendered) |-> rendered[i].labelElements])
      defsElements == Flatten([i \in 1..Len(rendered) |-> rendered[i].defsElements])
      elements ==
        <<renderBackground(data.width, data.height), renderDiagramTitle(data.title)>>
        \o [i \in 1..Len(data.sites) |-> renderSite(data.sites[i])]
        \o arrowElements
        \o labelElements
        \o [i \in 1..Len(data.devices) |-> renderDevice(data.devices[i])]
        \o <<renderDate(data, now)>>
  IN  renderToSvg(data.title, data.width, data.height, elements, defsElements)

render(data, now) ==
  LET rendered == [i \in 1..Len(data.connections) |->
                     renderConnection(data.connections[i], data.colors)]
      arrowElements == Flatten([i \in 1..Len(rendered) |-> rendered[i].arrowElements])
      labelElements == Flatten([i \in 1..Len(rendered) |-> rendered[i].labelElements])
      defsElements == Flatten([i \in 1..Len(rendered) |-> rendered[i].defsElements])
      elements ==
        <<renderBackground(data.width, data.height), renderDiagramTitle(data.title)>>
        \o [i \in 1..Len(data.sites) |-> renderSite(data.sites[i])]
        \o arrowElements
        \o labelElements
        \o [i \in 1..Len(data.devices) |-> renderDevice(data.devices[i])]
        \o <<renderDate(data, now)>>
  IN  renderToSvg(data.title, data.width, data.height, elements, Unique(defsElements))

-----------------------------------------------------------------------------
(* fetchRenderData and the command line *)

\* getV1Api: what the call completes with, given the environment and the
\* answer of the server
getV1Api(environment, response) ==
  IF ~environment.token THEN [threw |-> TRUE, error |-> "LIBRENMS_TOKEN is not set"]
  ELSE IF ~environment.server THEN [threw |-> TRUE, error |-> "LIBRENMS_SERVER is not set"]
  ELSE IF ~response.ok THEN [threw |-> TRUE, error |-> "Failed to fetch"]
  ELSE [threw |-> FALSE, data |-> response.data]

\* (await getV1Api(...))?.devices[0]?.device_id
DeviceIdOf(data) ==
  IF data.devices # <<>> THEN Some(data.devices[1].device_id) ELSE Undefined

\* a test of the device id that lets every answer pass
NeverNullish(value) == FALSE

\* null == value
IsNullish(value) == value = Undefined

\* if (portId)
Truthy(value) == value # Undefined /\ value[1] # 0

\* devices.find((d) => d.name === name)
FindDevice(devices, name) ==
  LET hits == {i \in 1..Len(devices) : devices[i].name = name}
  IN  IF hits = {} THEN Undefined
      ELSE Some(devices[CHOOSE i \in hits : \A j \in hits : i <= j])

\* ports.find((p) => p.ifName === interfaceName)?.port_id
FindPortId(portList, interfaceName) ==
  LET hits == {i \in 1..Len(portList) : portList[i].ifName = interfaceName}
  IN  IF hits = {} THEN Undefined
      ELSE Some(portList[CHOOSE i \in hits : \A j \in hits : i <= j].port_id)

\* config.devices || []
DevicesOf(c) == IF c.devices = Undefined THEN <<>> ELSE c.devices[1]

\* config.sites || []
SitesOf(c) == IF c.sites = Undefined THEN <<>> ELSE c.sites[1]

\* !device.librenms_hostname || !device.connections
Skipped(device) ==
  \/ device.librenms_hostname = Undefined
  \/ device.librenms_hostname = Some("")
  \/ device.connections = Undefined

\* rate != null ? rate * 8 : -1
TrafficOf(rate) == IF rate # Undefined THEN Times8(rate[1]) ELSE Bps(0, -1)

ConnectionDataOf(device, peer, connection, outboundTraffic, inboundTraffic) ==
  [from_x |-> device.render_x, from_y |-> device.render_y,
   to_x |-> peer.render_x, to_y |-> peer.render_y,
   speed |-> connection.speed,
   outboundTraffic |-> outboundTraffic, inboundTraffic |-> inboundTraffic]

DeviceDataOf(device) ==
  [type |-> device.type, name |-> device.name, render_x |-> device.render_x,
   render_y |-> device.render_y, label_position |-> device.label_position]

RenderDataOf(c, devices, connections) ==
  [title |-> c.title, width |-> c.width, height |-> c.height,
   devices |-> devices,
   sites |-> SitesOf(c),
   connections |-> connections,
   colors |-> IF c.colors = Undefined THEN DEFAULT_COLORS ELSE c.colors[1]]

-----------------------------------------------------------------------------
(* the inputs of renderConnection and of render *)

MaxSpanX == 193

MaxSpanY == 56

MaxSites == 2

MaxDevices == 2

MaxConnections == 2

Speeds == {"10M", "100M", "1G", "10G", "40G", "100G"}

Connection(from_x, from_y, to_x, to_y, speed, outboundTraffic, inboundTraffic) ==
  [from_x |-> from_x, from_y |-> from_y, to_x |-> to_x, to_y |-> to_y, speed |-> speed,
   outboundTraffic |-> outboundTraffic, inboundTraffic |-> inboundTraffic]

\* the connection of the end-to-end scenario
Scenario == Connection(100, 100, 100, 300, "10G", Bps(5, 0), Bps(1, 0))

\* connections of integer length from (100, 100), one per span within the
\* bounds, direction and speed; "25G" is a speed the table does not know
\* the spans <<dx, dy>> within the bounds whose length is an integer dx + e:
\* dy = 0, or (dx + e)^2 = dx^2 + dy^2 for an e in 1 .. dy
IntegerSpans ==
  {<<dx, 0>> : dx \in 0 .. MaxSpanX} \cup
  {<<(p[1] * p[1] - p[2] * p[2]) \div (2 * p[2]), p[1]>> :
     p \in {q \in (0 .. MaxSpanY) \X (1 .. MaxSpanY) :
              /\ q[2] <= q[1]
              /\ (q[1] * q[1] - q[2] * q[2]) % (2 * q[2]) = 0
              /\ (q[1] * q[1] - q[2] * q[2]) \div (2 * q[2]) <= MaxSpanX}}

LayoutConnections ==
  {Connection(100, 100, 100 + sx * p[1], 100 + sy * p[2], speed, Bps(0, 60000000), Bps(0, -1)) :
     p \in IntegerSpans, sx \in {-1, 1}, sy \in {-1, 1}, speed \in Speeds \cup {"25G"}}
  \cup {Scenario}

Site(i) ==
  [name |-> "site" \o ToString(i), render_x |-> 40 * i, render_y |-> 20, width |-> 30 * i + 1,
   height |-> 200, label_position |-> IF i % 2 = 1 THEN "top" ELSE "bottom"]

DeviceTypes == <<"router", "switch", "cloud">>

Device(i) ==
  [type |-> DeviceTypes[((i - 1) % 3) + 1], name |-> "device" \o ToString(i),
   render_x |-> 100 * i, render_y |-> 100,
   label_position |-> IF i % 2 = 1 THEN "top" ELSE "bottom"]

RenderConnections ==
  {Scenario,
   Connection(100, 100, 292, 156, "1G", Bps(0, 0), Bps(0, -1)),
   Connection(100, 100, 100, 100, "25G", Bps(0, 75000000), Bps(0, 2000000)),
   Connection(100, 300, 292, 156, "100M", Bps(0, 60000000), Bps(0, 60000000))}

RenderColorMaps ==
  {DEFAULT_COLORS,
   <<>>,
   (0 :> <<"r", "e", "d">>) @@ (50000000 :> <<"#", "r", "e", "d">>)}

SeqsUpTo(S, n) == UNION {[1..k -> S] : k \in 0..n}

RenderDatas ==
  {[title |-> "map", width |-> 400, height |-> 400,
    devices |-> [i \in 1..nd |-> Device(i)],
    sites |-> [i \in 1..ns |-> Site(i)],
    connections |-> cs,
    colors |-> cm] :
     nd \in 0..MaxDevices, ns \in 0..MaxSites,
     cs \in SeqsUpTo(RenderConnections, MaxConnections), cm \in RenderColorMaps}

Times == {"2023-01-01 00:00:00", "2023-06-30 12:34:56"}

-----------------------------------------------------------------------------
(* the evaluation of one function on inputs drawn from bounded sets *)

MaxBand == 2

FormatSpan == 10

IdlePipeline ==
  /\ env = [token |-> TRUE, server |-> TRUE]
  /\ config = <<>>
  /\ devIdx = 0
  /\ connIdx = 0
  /\ deviceId = <<>>
  /\ ports = <<>>
  /\ portId = <<>>
  /\ deviceDataList = <<>>
  /\ connectionDataList = <<>>
  /\ renderData = <<>>
  /\ svg = <<>>
  /\ stdout = <<>>
  /\ exitCode = <<>>
  /\ faults = {}
  /\ polled = <<>>
  /\ renderCalls = 0

\* the band maps over the thresholds -1 .. MaxBand, each threshold with a
\* colour of its own, and the default table
BandColor(k) == Hex(ToString(k + 2))

ColorMaps ==
  {[k \in S |-> BandColor(k)] : S \in SUBSET (-1 .. MaxBand)} \cup {DEFAULT_COLORS}

ColorTraffics ==
  {Bps(0, i) : i \in -1 .. MaxBand + 1} \cup
  {Bps(0, 999999), Bps(0, 1000000), Bps(0, 49999999), Bps(0, 50000000),
   Bps(0, 99999999), Bps(0, 100000000), Bps(1, 0), Bps(5, 0)}

FormatTraffics ==
  {Bps(0, i) : i \in -FormatSpan .. FormatSpan} \cup
  {Bps(0, 100000 + i) : i \in -FormatSpan .. FormatSpan} \cup
  {Bps(0, 100000000 + i) : i \in -FormatSpan .. FormatSpan} \cup
  {Bps(0, 125), Bps(0, 1005), Bps(0, 375000), Bps(0, 1005000), Bps(0, 99995000),
   Bps(0, 125000000), Bps(0, 995000000), Bps(1, 0), Bps(1, 5000000),
   Bps(2, 675000000), Bps(5, 0)}

InitColor ==
  /\ pc = "call"
  /\ args \in [fn : {"getStrokeColor"}, traffic : ColorTraffics, colors : ColorMaps]
  /\ result = <<>>
  /\ IdlePipeline

CallGetStrokeColor ==
  /\ pc = "call"
  /\ args.fn = "getStrokeColor"
  /\ result' = Some(getStrokeColor(args.traffic, args.colors))
  /\ pc' = "returned"
  /\ UNCHANGED <<args, pipelineVars>>

NextColor == CallGetStrokeColor

SpecColor == InitColor /\ [][NextColor]_vars

InitFormat ==
  /\ pc = "call"
  /\ args \in [fn : {"formatTraffic"}, traffic : FormatTraffics]
  /\ result = <<>>
  /\ IdlePipeline

CallFormatTraffic ==
  /\ pc = "call"
  /\ args.fn = "formatTraffic"
  /\ result' = Some(formatTraffic(args.traffic))
  /\ pc' = "returned"
  /\ UNCHANGED <<args, pipelineVars>>

NextFormat == CallFormatTraffic

SpecFormat == InitFormat /\ [][NextFormat]_vars

InitLayout ==
  /\ pc = "call"
  /\ args \in [fn : {"renderConnection"}, connection : LayoutConnections,
               colors : {DEFAULT_COLORS}]
  /\ result = <<>>
  /\ IdlePipeline

CallRenderConnection ==
  /\ pc = "call"
  /\ args.fn = "renderConnection"
  /\ result' = Some(renderConnection(args.connection, args.colors))
  /\ pc' = "returned"
  /\ UNCHANGED <<args, pipelineVars>>

NextLayout == CallRenderConnection

SpecLayout == InitLayout /\ [][NextLayout]_vars

-----------------------------------------------------------------------------
(* the command line: loadConfig, fetchRenderData, render, write *)

MaxRate == 1

MaxPorts == 2

ConfigDevice(type, name, x, y, hostname, connections) ==
  [type |-> type, name |-> name, render_x |-> x, render_y |-> y, label_position |-> "top",
   librenms_hostname |-> hostname, connections |-> connections]

ConfigConnection(peer, interface_name, speed) ==
  [peer |-> peer, interface_name |-> interface_name, speed |-> speed]

\* the files loadConfig may read: two polled devices and a cloud; a polled
\* device with no connection, one with an empty host name and band colours
\* of its own; a file that names neither devices nor sites
Configs ==
  {[title |-> "core", width |-> 400, height |-> 400,
    devices |-> Some(<<
      ConfigDevice("router", "r1", 100, 100, Some("r1.example"),
                   Some(<<ConfigConnection("nowhere", "eth1", "1G"),
                          ConfigConnection("sw1", "eth0", "10G")>>)),
      ConfigDevice("switch", "sw1", 100, 300, Some("sw1.example"),
                   Some(<<ConfigConnection("c1", "eth1", "1G")>>)),
      ConfigDevice("cloud", "c1", 292, 156, Undefined, Undefined)>>),
    sites |-> Some(<<Site(1)>>),
    colors |-> Undefined],
   [title |-> "edge", width |-> 400, height |-> 400,
    devices |-> Some(<<
      ConfigDevice("router", "r1", 100, 100, Some("r1.example"), Some(<<>>)),
      ConfigDevice("switch", "sw1", 100, 300, Some(""),
                   Some(<<ConfigConnection("r1", "eth0", "10G")>>))>>),
    sites |-> Some(<<>>),
    colors |-> Some((0 :> <<"r", "e", "d">>) @@ (50000000 :> <<"#", "r", "e", "d">>))],
   [title |-> "default", width |-> 400, height |-> 400,
    devices |-> Undefined, sites |-> Undefined, colors |-> Undefined]}

\* the answers of the server: not OK, or OK with a body
NotOk == [ok |-> FALSE, data |-> <<>>]

Ok(data) == [ok |-> TRUE, data |-> data]

DeviceResponses == {NotOk, Ok([devices |-> <<>>]), Ok([devices |-> <<[device_id |-> 7]>>])}

PortsResponses ==
  {NotOk} \cup
  {Ok([ports |-> [i \in 1..k |-> [port_id |-> i, ifName |-> "eth" \o ToString(i - 1)]]]) :
     k \in 0..MaxPorts}

Rates == {Undefined, Some(625000000)} \cup {Some(r) : r \in 0..MaxRate}

PortResponses ==
  {NotOk, Ok([port |-> <<>>])} \cup
  {Ok([port |-> <<[ifOperStatus |-> status, ifOutOctets_rate |-> out,
                   ifInOctets_rate |-> in]>>]) :
     status \in {"up", "down"}, out \in Rates, in \in Rates}

\* history: the failure of a request, as the environment and the server
\* determine it
FaultOf(environment, response) ==
  IF ~environment.token \/ ~environment.server THEN {"environment"}
  ELSE IF ~response.ok THEN {"response"}
  ELSE {}

Init ==
  /\ pc = "loadConfig"
  /\ args = <<>>
  /\ result = <<>>
  /\ env \in [token : BOOLEAN, server : BOOLEAN]
  /\ config = <<>>
  /\ devIdx = 0
  /\ connIdx = 0
  /\ deviceId = <<>>
  /\ ports = <<>>
  /\ portId = <<>>
  /\ deviceDataList = <<>>
  /\ connectionDataList = <<>>
  /\ renderData = <<>>
  /\ svg = <<>>
  /\ stdout = <<>>
  /\ exitCode = <<>>
  /\ faults = {}
  /\ polled = <<>>
  /\ renderCalls = 0

\* loadConfig resolves with the configuration file or the default one
LoadConfig ==
  /\ pc = "loadConfig"
  /\ \E c \in Configs : config' = Some(c)
  /\ devIdx' = 1
  /\ pc' = "device"
  /\ UNCHANGED <<args, result, env, connIdx, deviceId, ports, portId, deviceDataList,
                 connectionDataList, renderData, svg, stdout, exitCode, faults, polled,
                 renderCalls>>

\* loadConfig rejects: neither file can be read and parsed
LoadConfigFails ==
  /\ pc = "loadConfig"
  /\ pc' = "catch"
  /\ UNCHANGED <<args, result, env, config, devIdx, connIdx, deviceId, ports, portId,
                 deviceDataList, connectionDataList, renderData, svg, stdout, exitCode,
                 faults, polled, renderCalls>>

\* for (const device of devices): the body up to the first request
NextDevice ==
  /\ pc = "device"
  /\ devIdx <= Len(DevicesOf(config[1]))
  /\ LET device == DevicesOf(config[1])[devIdx]
     IN  /\ deviceDataList' = Append(deviceDataList, DeviceDataOf(device))
         /\ IF Skipped(device)
            THEN devIdx' = devIdx + 1 /\ pc' = "device"
            ELSE devIdx' = devIdx /\ pc' = "getDevice"
  /\ UNCHANGED <<args, result, env, config, connIdx, deviceId, ports, portId,
                 connectionDataList, renderData, svg, stdout, exitCode, faults, polled,
                 renderCalls>>

\* await getV1Api(`/api/v0/devices/${hostname}`) and the test of deviceId
GetDevice ==
  /\ pc = "getDevice"
  /\ \E response \in DeviceResponses :
       LET completion == getV1Api(env, response)
           id == IF completion.threw THEN Undefined ELSE DeviceIdOf(completion.data)
       IN  /\ faults' = faults \cup FaultOf(env, response) \cup
                        (IF response.ok /\ response.data.devices = <<>>
                         THEN {"device"} ELSE {})
           /\ deviceId' = id
           /\ IF completion.threw \/ IsNullish(id)
              THEN pc' = "catch"
              ELSE pc' = "getPorts"
  /\ UNCHANGED <<args, result, env, config, devIdx, connIdx, ports, portId, deviceDataList,
                 connectionDataList, renderData, svg, stdout, exitCode, polled, renderCalls>>

\* await getV1Api(`/api/v0/ports/search/device_id/${deviceId}`)
GetPorts ==
  /\ pc = "getPorts"
  /\ \E response \in PortsResponses :
       LET completion == getV1Api(env, response)
       IN  /\ faults' = faults \cup FaultOf(env, response)
           /\ IF completion.threw
              THEN ports' = ports /\ connIdx' = connIdx /\ pc' = "catch"
              ELSE ports' = completion.data.ports /\ connIdx' = 1 /\ pc' = "connection"
  /\ UNCHANGED <<args, result, env, config, devIdx, deviceId, portId, deviceDataList,
                 connectionDataList, renderData, svg, stdout, exitCode, polled, renderCalls>>

\* for (const connection of connections): the body up to the request of
\* the port, and the end of the loop
NextConnection ==
  /\ pc = "connection"
  /\ LET device == DevicesOf(config[1])[devIdx]
         connections == device.connections[1]
     IN  IF connIdx > Len(connections)
         THEN /\ devIdx' = devIdx + 1
              /\ pc' = "device"
              /\ UNCHANGED <<connIdx, portId, connectionDataList, polled>>
         ELSE LET connection == connections[connIdx]
                  peer == FindDevice(DevicesOf(config[1]), connection.peer)
                  id == FindPortId(ports, connection.interface_name)
              IN  /\ devIdx' = devIdx
                  /\ IF peer = Undefined
                     THEN /\ connIdx' = connIdx + 1
                          /\ pc' = "connection"
                          /\ UNCHANGED <<portId, connectionDataList, polled>>
                     ELSE IF Truthy(id)
                     THEN /\ portId' = id
                          /\ pc' = "getPort"
                          /\ UNCHANGED <<connIdx, connectionDataList, polled>>
                     ELSE /\ connectionDataList' =
                               Append(connectionDataList,
                                      ConnectionDataOf(device, peer[1], connection,
                                                       Bps(0, -1), Bps(0, -1)))
                          /\ polled' = Append(polled, [port |-> Undefined])
                          /\ connIdx' = connIdx + 1
                          /\ pc' = "connection"
                          /\ UNCHANGED portId
  /\ UNCHANGED <<args, result, env, config, deviceId, ports, deviceDataList, renderData,
                 svg, stdout, exitCode, faults, renderCalls>>

\* await getV1Api(`/api/v0/ports/${portId}`) and the rest of the loop body
GetPort ==
  /\ pc = "getPort"
  /\ \E response \in PortResponses :
       LET completion == getV1Api(env, response)
           device == DevicesOf(config[1])[devIdx]
           connection == device.connections[1][connIdx]
           peer == FindDevice(DevicesOf(config[1]), connection.peer)
       IN  /\ faults' = faults \cup FaultOf(env, response)
           /\ IF completion.threw
              THEN /\ pc' = "catch"
                   /\ UNCHANGED <<connIdx, connectionDataList, polled>>
              ELSE LET port == completion.data.port
                   IN  /\ pc' = "connection"
                       /\ connIdx' = connIdx + 1
                       /\ polled' = Append(polled, [port |-> Some(port)])
                       /\ IF port = <<>> \/ port[1].ifOperStatus # "up"
                          THEN UNCHANGED connectionDataList
                          ELSE connectionDataList' =
                                 Append(connectionDataList,
                                        ConnectionDataOf(device, peer[1], connection,
                                                         TrafficOf(port[1].ifOutOctets_rate),
                                                         TrafficOf(port[1].ifInOctets_rate)))
  /\ UNCHANGED <<args, result, env, config, devIdx, deviceId, ports, portId, deviceDataList,
                 renderData, svg, stdout, exitCode, renderCalls>>

\* the end of fetchRenderData: the sites and the RenderData it resolves with
ReturnRenderData ==
  /\ pc = "device"
  /\ devIdx > Len(DevicesOf(config[1]))
  /\ renderData' = Some(RenderDataOf(config[1], deviceDataList, connectionDataList))
  /\ pc' = "render"
  /\ UNCHANGED <<args, result, env, config, devIdx, connIdx, deviceId, ports, portId,
                 deviceDataList, connectionDataList, svg, stdout, exitCode, faults, polled,
                 renderCalls>>

\* .then((data) => render(data))
Render ==
  /\ pc = "render"
  /\ \E now \in Times : svg' = Some(render(renderData[1], now))
  /\ renderCalls' = renderCalls + 1
  /\ pc' = "write"
  /\ UNCHANGED <<args, result, env, config, devIdx, connIdx, deviceId, ports, portId,
                 deviceDataList, connectionDataList, renderData, stdout, exitCode, faults,
                 polled>>

\* .then((svg) => process.stdout.write(svg))
Write ==
  /\ pc = "write"
  /\ stdout' = Append(stdout, svg[1])
  /\ pc' = "done"
  /\ UNCHANGED <<args, result, env, config, devIdx, connIdx, deviceId, ports, portId,
                 deviceDataList, connectionDataList, renderData, svg, exitCode, faults,
                 polled, renderCalls>>

\* a handler that reports the error and lets the process end normally
CatchWithoutExit ==
  /\ pc = "catch"
  /\ exitCode' = Some(0)
  /\ pc' = "exited"
  /\ UNCHANGED <<args, result, env, config, devIdx, connIdx, deviceId, ports, portId,
                 deviceDataList, connectionDataList, renderData, svg, stdout, faults,
                 polled, renderCalls>>

\* .catch((err) => { console.error(err); process.exit(1); }); console
\* writes to the standard error stream
Catch ==
  /\ pc = "catch"
  /\ exitCode' = Some(1)
  /\ pc' = "exited"
  /\ UNCHANGED <<args, result, env, config, devIdx, connIdx, deviceId, ports, portId,
                 deviceDataList, connectionDataList, renderData, svg, stdout, faults,
                 polled, renderCalls>>

Next ==
  \/ LoadConfig
  \/ LoadConfigFails
  \/ NextDevice
  \/ GetDevice
  \/ GetPorts
  \/ NextConnection
  \/ GetPort
  \/ ReturnRenderData
  \/ Render
  \/ Write
  \/ Catch

Spec == Init /\ [][Next]_vars

\* render on a RenderData drawn from the bounded set, and the write
InitRender ==
  /\ pc = "render"
  /\ args = <<>>
  /\ result = <<>>
  /\ env = [token |-> TRUE, server |-> TRUE]
  /\ config = <<>>
  /\ devIdx = 0
  /\ connIdx = 0
  /\ deviceId = <<>>
  /\ ports = <<>>
  /\ portId = <<>>
  /\ deviceDataList = <<>>
  /\ connectionDataList = <<>>
  /\ renderData \in {Some(d) : d \in RenderDatas}
  /\ svg = <<>>
  /\ stdout = <<>>
  /\ exitCode = <<>>
  /\ faults = {}
  /\ polled = <<>>
  /\ renderCalls = 0

NextRender == Render \/ Write

SpecRender == InitRender /\ [][NextRender]_vars

-----------------------------------------------------------------------------
(* the properties *)

Returned(fn) == pc = "returned" /\ args.fn = fn

\* the thresholds of a band map at or below a traffic value
AtOrBelow(colors, traffic) == {s \in DOMAIN colors : LeqBps(s, traffic)}

Largest(S) == CHOOSE x \in S : \A y \in S : y <= x

\* C1: whenever the band map has a threshold at or below the traffic value,
\* getStrokeColor returns the colour of the largest such threshold, also
\* when that threshold is 0 and the map holds the band -1.
C1_LargestBandAtOrBelow ==
  (Returned("getStrokeColor") /\ AtOrBelow(args.colors, args.traffic) # {})
    => result[1] = args.colors[Largest(AtOrBelow(args.colors, args.traffic))]

Red == <<"#", "f", "f", "0", "0", "0", "0">>

Yellow == <<"#", "c", "c", "c", "c", "0", "0">>

\* the parts of the scenario on which the code and the claim agree: stroke
\* width 4, the labels 36 above and below the midpoint (100, 200) as the
\* overlap rule places them, outbound arrow #ff0000, the two texts
ScenarioCommon ==
  LET arrows == result[1].arrowElements
      labels == result[1].labelElements
  IN  /\ arrows[1].strokeWidth = Num(4)
      /\ arrows[2].strokeWidth = Num(4)
      /\ labels[1].text.x = Num(100) /\ labels[1].text.y = Num(164 + 6)
      /\ labels[2].text.x = Num(100) /\ labels[2].text.y = Num(236 + 6)
      /\ arrows[1].stroke = Red
      /\ labels[1].text.content = "5.00 Gbps"
      /\ labels[2].text.content = "1.00 Gbps"

\* C2 as claimed: in the scenario the inbound arrow is #cccc00 and the two
\* arrows have two distinct colours.
C2_ScenarioTwoColours ==
  (Returned("renderConnection") /\ args.connection = Scenario)
    => /\ ScenarioCommon
       /\ result[1].arrowElements[2].stroke = Yellow
       /\ result[1].arrowElements[1].stroke # result[1].arrowElements[2].stroke

\* C2: in the scenario the stroke width is 4, the overlap rule is active,
\* the labels read "5.00 Gbps" and "1.00 Gbps", and both arrows have the
\* colour #ff0000 of the band 10^8, which holds 10^9 as well as 5 * 10^9.
C2_ScenarioOneColour ==
  (Returned("renderConnection") /\ args.connection = Scenario)
    => /\ ScenarioCommon
       /\ result[1].arrowElements[2].stroke = Red
       /\ Len(Unique(result[1].defsElements)) = 1

C2_Witness ==
  /\ Returned("renderConnection")
  /\ args.connection = Scenario
  /\ result[1].arrowElements[2].stroke = Red

\* C3 as claimed: 99999 -> "99.99 kbps", 100000 -> "0.10 Mbps",
\* 99999999 -> "99.99 Mbps", 100000000 -> "0.10 Gbps", negative -> "Inactive".
C3_BoundariesTruncated ==
  Returned("formatTraffic")
    => /\ args.traffic = Bps(0, 99999) => result[1] = "99.99 kbps"
       /\ args.traffic = Bps(0, 100000) => result[1] = "0.10 Mbps"
       /\ args.traffic = Bps(0, 99999999) => result[1] = "99.99 Mbps"
       /\ args.traffic = Bps(0, 100000000) => result[1] = "0.10 Gbps"
       /\ BpsLess(args.traffic, 0) => result[1] = "Inactive"

\* C3: formatTraffic cuts the units at 10^5 and 10^8 and rounds to two
\* decimals: 99999 -> "100.00 kbps", 100000 -> "0.10 Mbps",
\* 99999999 -> "100.00 Mbps", 100000000 -> "0.10 Gbps", negative -> "Inactive".
C3_BoundariesRounded ==
  Returned("formatTraffic")
    => /\ args.traffic = Bps(0, 99999) => result[1] = "100.00 kbps"
       /\ args.traffic = Bps(0, 100000) => result[1] = "0.10 Mbps"
       /\ args.traffic = Bps(0, 99999999) => result[1] = "100.00 Mbps"
       /\ args.traffic = Bps(0, 100000000) => result[1] = "0.10 Gbps"
       /\ BpsLess(args.traffic, 0) => result[1] = "Inactive"

C3_Witness ==
  /\ Returned("formatTraffic")
  /\ args.traffic = Bps(0, 99999)
  /\ result[1] = "100.00 kbps"

\* n times the text kind
Repeat(kind, n) == [i \in 1..n |-> kind]

\* C4: the body of the document lists the background, the title, the sites
\* in input order, the arrows of all connections, the labels of all
\* connections, the devices in input order and the timestamp, in this order.
C4_LayerOrder ==
  svg # <<>> =>
    LET data == renderData[1]
        content == svg[1].content
        ns == Len(data.sites)
        nc == Len(data.connections)
        nd == Len(data.devices)
    IN  /\ [i \in 1..Len(content) |-> content[i].kind] =
             <<"background", "title">> \o Repeat("site", ns) \o Repeat("arrow", 2 * nc)
             \o Repeat("label", 2 * nc) \o Repeat("device", nd) \o <<"date">>
        /\ \A i \in 1..ns : content[2 + i].label.content = data.sites[i].name
        /\ \A i \in 1..nd :
             content[2 + ns + 4 * nc + i].label.content = data.devices[i].name
        /\ \A i, j \in 1..Len(content) :
             /\ (content[i].kind = "label" /\ content[j].kind = "arrow") => j < i
             /\ (content[i].kind = "device" /\ content[j].kind = "label") => j < i

C4_Witness ==
  /\ svg # <<>>
  /\ Len(renderData[1].connections) = 2
  /\ Len(renderData[1].sites) = 2
  /\ Len(renderData[1].devices) = 2
  /\ svg[1].content[7].kind = "arrow"
  /\ svg[1].content[9].kind = "label"

\* the arrows of a document
ArrowsOf(doc) == {i \in 1..Len(doc.content) : doc.content[i].kind = "arrow"}

\* C5: the defs of the document hold exactly one marker per distinct colour
\* of an arrow, however many arrows have the colour, and the marker-end of
\* every arrow names a marker of the defs.
C5_OneMarkerPerColour ==
  svg # <<>> =>
    LET doc == svg[1]
        colours == {doc.content[i].stroke : i \in ArrowsOf(doc)}
    IN  /\ \A c \in colours :
             Cardinality({k \in 1..Len(doc.defs) : doc.defs[k].fill = c}) = 1
        /\ \A k \in 1..Len(doc.defs) : doc.defs[k].fill \in colours
        /\ \A i \in ArrowsOf(doc) :
             \E k \in 1..Len(doc.defs) : doc.defs[k].id = doc.content[i].markerEnd

C5_Witness ==
  /\ svg # <<>>
  /\ Len(renderData[1].connections) = 2
  /\ Cardinality(ArrowsOf(svg[1])) = 4
  /\ Len(svg[1].defs) = 1

\* C6: render returns a document for every RenderData: once it has been
\* called the document is there and no error has been caught, also for a
\* connection of unknown speed (stroke width 0), a connection whose ends are
\* equal, and an empty band map (every arrow black).
C6_RenderTotal ==
  pc # "render" =>
    /\ pc \in {"write", "done"}
    /\ exitCode = <<>>
    /\ svg # <<>>
    /\ LET data == renderData[1]
           content == svg[1].content
           first == 2 + Len(data.sites)
       IN  /\ Len(content) =
                3 + Len(data.sites) + 4 * Len(data.connections) + Len(data.devices)
           /\ \A i \in 1..Len(data.connections) :
                \A k \in {2 * i - 1, 2 * i} :
                  /\ data.connections[i].speed \notin Speeds
                       => content[first + k].strokeWidth = Num(0)
                  /\ DOMAIN data.colors = {} => content[first + k].stroke = Black

C6_Witness ==
  /\ pc = "done"
  /\ stdout = svg
  /\ DOMAIN renderData[1].colors = {}
  /\ \E i \in 1..Len(renderData[1].connections) :
       LET c == renderData[1].connections[i]
       IN  c.speed = "25G" /\ c.from_x = c.to_x /\ c.from_y = c.to_y

\* C7: once a request of fetchRenderData has failed (a variable of the
\* environment unset, an answer not OK, no device in the answer), render is
\* not called, nothing is written to the standard output, and the process
\* ends with exit status 1.
C7_FailureStopsPipeline ==
  faults # {} =>
    /\ renderCalls = 0
    /\ svg = <<>>
    /\ stdout = <<>>
    /\ pc \in {"catch", "exited"}
    /\ pc = "exited" => exitCode = <<1>>

C7_Witness ==
  /\ faults = {"device"}
  /\ connectionDataList # <<>>
  /\ pc = "exited"
  /\ exitCode = <<1>>

\* what the claim expects of one traffic value: -1 when the interface has
\* no matching port, the port is not up or the rate is null, rate * 8 otherwise
ExpectedTraffic(answer, rate) ==
  IF answer.port = Undefined \/ answer.port[1] = <<>>
     \/ answer.port[1][1].ifOperStatus # "up" \/ rate = Undefined
  THEN Bps(0, -1)
  ELSE Times8(rate[1])

ExpectedRate(answer, field) ==
  IF answer.port = Undefined \/ answer.port[1] = <<>> THEN Undefined
  ELSE answer.port[1][1][field]

\* C8: fetchRenderData emits one ConnectionData for every connection of a
\* polled device whose peer is configured, with -1 for each traffic value
\* that is unavailable (no matching port, port not up, rate null) and the
\* octet rate times 8 otherwise.
C8_OneConnectionDataEach ==
  pc = "render" =>
    LET connections == renderData[1].connections
    IN  /\ Len(connections) = Len(polled)
        /\ \A i \in 1..Len(connections) :
             /\ connections[i].outboundTraffic =
                  ExpectedTraffic(polled[i], ExpectedRate(polled[i], "ifOutOctets_rate"))
             /\ connections[i].inboundTraffic =
                  ExpectedTraffic(polled[i], ExpectedRate(polled[i], "ifInOctets_rate"))

\* C9: for a band map that is not empty, getStrokeColor returns one of the
\* colours of the map, whatever the traffic value.
C9_ColourOfTheMap ==
  (Returned("getStrokeColor") /\ DOMAIN args.colors # {})
    => result[1] \in {args.colors[k] : k \in DOMAIN args.colors}

C9_Witness ==
  /\ Returned("getStrokeColor")
  /\ args.traffic = Bps(0, -1)
  /\ DOMAIN args.colors = {0, 1}
  /\ result[1] = args.colors[0]

\* C10: for a connection of length L > 0 with stroke width sw and unit
\* direction u, the outbound label is anchored at the midpoint - u * d and
\* the inbound label at the midpoint + u * d, where d = (12 + sw * 6) / |u.y|
\* if the vertical span is above 48 and the horizontal span below 192, and
\* d = 36 + 8 + sw * 6 otherwise.
C10_LabelAnchors ==
  Returned("renderConnection") =>
    LET c == args.connection
        dx == c.to_x - c.from_x
        dy == c.to_y - c.from_y
        L == Length(dx, dy)
        sw == result[1].arrowElements[1].strokeWidth
        ux == Rat(dx, L)
        uy == Rat(dy, L)
        midX == Rat(c.from_x + c.to_x, 2)
        midY == Rat(c.from_y + c.to_y, 2)
        d == IF Abs(dy) > 48 /\ Abs(dx) < 192
             THEN RDiv(RAdd(Num(12), RMul(sw, Num(6))), RAbs(uy))
             ELSE RAdd(Num(36 + 8), RMul(sw, Num(6)))
        outbound == result[1].labelElements[1].text
        inbound == result[1].labelElements[2].text
    IN  L # 0 =>
          /\ outbound.x = RSub(midX, RMul(ux, d))
          /\ RSub(outbound.y, Num(6)) = RSub(midY, RMul(uy, d))
          /\ inbound.x = RAdd(midX, RMul(ux, d))
          /\ RSub(inbound.y, Num(6)) = RAdd(midY, RMul(uy, d))

\* a span of exactly 48 beside a span below 192: the default offset, here
\* 36 + 8 + 4 * 6 along u = (3/5, 4/5) from the midpoint (118, 124)
C10_Witness ==
  /\ Returned("renderConnection")
  /\ args.connection = Connection(100, 100, 136, 148, "10G", Bps(0, 60000000), Bps(0, -1))
  /\ result[1].labelElements[1].text.x = Rat(5 * 118 - 3 * 68, 5)
  /\ result[1].labelElements[2].text.x = Rat(5 * 118 + 3 * 68, 5)

\* C11: for a connection whose endpoints are equal (length 0) the direction
\* is the zero vector: both arrows are zero-length paths at the shared point
\* and both label anchors are well-defined and equal to the midpoint, which
\* is the shared point.
C11_CoincidentGeometry ==
  (/\ Returned("renderConnection")
   /\ args.connection.from_x = args.connection.to_x
   /\ args.connection.from_y = args.connection.to_y)
    => LET shared == <<Num(args.connection.from_x), Num(args.connection.from_y)>>
       IN  /\ \A i \in 1..2 :
                /\ result[1].arrowElements[i].from = shared
                /\ result[1].arrowElements[i].to = shared
           /\ \A i \in 1..2 :
                LET anchor == result[1].labelElements[i].text
                IN  /\ IsFinite(anchor.x) /\ IsFinite(anchor.y)
                    /\ anchor.x = shared[1]
                    /\ RSub(anchor.y, Num(6)) = shared[2]

====
